---- MODULE Spec2Model ----
(***************************************************************************)
(* State machine of the MorphingCardStack component                        *)
(* (components/ui/morphing-card-stack.tsx).  The component owns four React *)
(* state cells (layout, expandedCard, activeIndex, isDragging); the host   *)
(* (browser + Framer Motion) delivers drag-start, drag-end, click,         *)
(* layout-button and indicator-dot events, one handler run per step.       *)
(***************************************************************************)
EXTENDS Integers, Sequences, FiniteSets

VARIABLES cards,         \* the cards prop (fixed for the life of the component)
          layout,        \* useState<LayoutMode>(defaultLayout)
          expandedCard,  \* useState<string | null>(null)
          activeIndex,   \* useState<number>(0)
          isDragging,    \* useState<boolean>(false)
          gesture,       \* host pointer phase: "idle", "dragging", "released"
          dragCard,      \* index of the card the current gesture started on, or -1
          event,         \* the last event delivered and its arguments
          cardClicked,   \* arguments of the onCardClick calls of the last handler run
          onCardClick    \* whether the optional onCardClick prop was supplied

vars == <<cards, layout, expandedCard, activeIndex, isDragging,
          gesture, dragCard, event, cardClicked, onCardClick>>

----------------------------------------------------------------------------
(* Bounds and inputs *)

MaxCards == 3

\* ids of the card records handed to the component (App cardData ids)
CardIds == <<"1", "2", "3", "4", "5", "6">>

LayoutModes == {"stack", "grid", "list"}

\* PanInfo.offset.x values delivered on drag release
Offsets == {-60, -51, -50, -5, 0, 10, 50, 51, 60}

\* PanInfo.velocity.x values delivered on drag release
Velocities == {-300, -101, -100, -20, 0, 20, 100, 101, 300}

SWIPE_THRESHOLD == 50

\* expandedCard = null
Null == "null"

----------------------------------------------------------------------------
(* Arithmetic as the code computes it *)

Abs(x) == IF x < 0 THEN -x ELSE x

\* JavaScript remainder: the result takes the sign of the dividend
JsRem(a, b) == IF a >= 0 THEN a % b ELSE -((-a) % b)

\* cards.length
Length == Len(cards)

\* cards[index] with the code's 0-based index
CardAt(index) == cards[index + 1]

swipeNoAbs(x, vx) == x * vx

\* const swipe = Math.abs(offset.x) * velocity.x
swipe(x, vx) == Abs(x) * vx

advanceNoWrap(prev) == prev + 1

\* (prev) => (prev + 1) % cards.length
advance(prev) == JsRem(prev + 1, Length)

retreatNoWrap(prev) == JsRem(prev - 1, Length)

\* (prev) => (prev - 1 + cards.length) % cards.length
retreat(prev) == JsRem(prev - 1 + Length, Length)

swipedLeftInclusive(x, vx) == x <= -SWIPE_THRESHOLD \/ swipe(x, vx) < -1000

\* offset.x < -SWIPE_THRESHOLD || swipe < -1000
swipedLeft(x, vx) == x < -SWIPE_THRESHOLD \/ swipe(x, vx) < -1000

swipedRightInclusive(x, vx) == x > SWIPE_THRESHOLD \/ swipe(x, vx) >= 1000

\* offset.x > SWIPE_THRESHOLD || swipe > 1000
swipedRight(x, vx) == x > SWIPE_THRESHOLD \/ swipe(x, vx) > 1000

dragEndIndexRightFirst(prev, x, vx) ==
    IF swipedRight(x, vx) THEN retreat(prev)
    ELSE IF swipedLeft(x, vx) THEN advance(prev)
    ELSE prev

\* the index handleDragEnd stores for a release (x, vx) when the previous
\* index is prev: left check first, then right check, else unchanged
dragEndIndex(prev, x, vx) ==
    IF swipedLeft(x, vx) THEN advance(prev)
    ELSE IF swipedRight(x, vx) THEN retreat(prev)
    ELSE prev

----------------------------------------------------------------------------
(* Render: display order *)

RECURSIVE reverse(_)
reverse(s) == IF s = <<>> THEN <<>> ELSE Append(reverse(Tail(s)), Head(s))

\* the loop of getStackOrder: reordered[i] = {...cards[(activeIndex+i) % n], stackPosition: i}
reordered == [j \in 1..Length |->
                [id |-> CardAt(JsRem(activeIndex + (j - 1), Length)),
                 stackPosition |-> j - 1]]

getStackOrderNoReverse == reordered

getStackOrder == reverse(reordered)

displayCardsAlwaysStack == getStackOrder

\* layout === "stack" ? getStackOrder() : cards.map((c, i) => ({...c, stackPosition: i}))
displayCards ==
    IF layout = "stack" THEN getStackOrder
    ELSE [j \in 1..Length |-> [id |-> cards[j], stackPosition |-> j - 1]]

renderedAlways == TRUE

\* the component returns null for an empty card array: nothing is rendered
rendered == Length # 0

isTopCardAnyLayout(i) ==
    \E j \in 1..Len(displayCards) :
       /\ displayCards[j].id = CardAt(i)
       /\ displayCards[j].stackPosition = 0

\* isTopCard of the card at 0-based index i in the current render:
\* layout === "stack" && card.stackPosition === 0
isTopCard(i) ==
    /\ layout = "stack"
    /\ \E j \in 1..Len(displayCards) :
          /\ displayCards[j].id = CardAt(i)
          /\ displayCards[j].stackPosition = 0

draggableAlways(i) == TRUE

\* drag={isTopCard ? "x" : false}
draggable(i) == isTopCard(i)

getLayoutStylesRotateFromTop(stackPosition) ==
    IF layout = "stack"
    THEN [top |-> stackPosition * 8, left |-> stackPosition * 8,
          zIndex |-> Length - stackPosition, rotate |-> stackPosition * 2]
    ELSE [top |-> 0, left |-> 0, zIndex |-> 1, rotate |-> 0]

getLayoutStylesZByDepth(stackPosition) ==
    IF layout = "stack"
    THEN [top |-> stackPosition * 8, left |-> stackPosition * 8,
          zIndex |-> stackPosition + 1, rotate |-> (stackPosition - 1) * 2]
    ELSE [top |-> 0, left |-> 0, zIndex |-> 1, rotate |-> 0]

\* getLayoutStyles(stackPosition): switch (layout)
getLayoutStyles(stackPosition) ==
    IF layout = "stack"
    THEN [top |-> stackPosition * 8, left |-> stackPosition * 8,
          zIndex |-> Length - stackPosition, rotate |-> (stackPosition - 1) * 2]
    ELSE [top |-> 0, left |-> 0, zIndex |-> 1, rotate |-> 0]

\* the 0-based index in cards of the card with this id
indexOf(id) == CHOOSE i \in 0..(Length - 1) : CardAt(i) = id

\* what the component hands to the rendering surface: nothing for an empty
\* card array, else one element per entry of displayCards, in that order
renderOutput ==
    IF ~rendered THEN <<>>
    ELSE LET shown == displayCards
         IN  [j \in 1..Len(shown) |->
                [id |-> shown[j].id,
                 stackPosition |-> shown[j].stackPosition,
                 styles |-> getLayoutStyles(shown[j].stackPosition),
                 isExpanded |-> expandedCard = shown[j].id,
                 drag |-> draggable(indexOf(shown[j].id))]]

\* the indicator dots rendered: layout === "stack" && cards.length > 1
indicatorDots ==
    IF rendered /\ layout = "stack" /\ Length > 1 THEN 0..(Length - 1) ELSE {}

----------------------------------------------------------------------------
(* Handlers: the state updates of one handler run *)

handleDragEndEarlyReturn(x, vx) ==
    /\ activeIndex' = dragEndIndex(activeIndex, x, vx)
    /\ isDragging' = IF swipedLeft(x, vx) \/ swipedRight(x, vx)
                     THEN isDragging ELSE FALSE
    /\ UNCHANGED <<layout, expandedCard>>
    /\ cardClicked' = <<>>

handleDragEndCollapses(x, vx) ==
    /\ activeIndex' = dragEndIndex(activeIndex, x, vx)
    /\ isDragging' = FALSE
    /\ expandedCard' = IF swipedLeft(x, vx) \/ swipedRight(x, vx)
                       THEN Null ELSE expandedCard
    /\ UNCHANGED layout
    /\ cardClicked' = <<>>

\* handleDragEnd(_event, info): navigate, then setIsDragging(false)
handleDragEnd(x, vx) ==
    /\ activeIndex' = dragEndIndex(activeIndex, x, vx)
    /\ isDragging' = FALSE
    /\ UNCHANGED <<layout, expandedCard>>
    /\ cardClicked' = <<>>

\* onCardClick?.(card): the calls made for the card at index i
notify(i) == IF onCardClick THEN <<CardAt(i)>> ELSE <<>>

onClickNoGuard(i) ==
    /\ expandedCard' = IF expandedCard = CardAt(i) THEN Null ELSE CardAt(i)
    /\ cardClicked' = notify(i)
    /\ UNCHANGED <<layout, activeIndex, isDragging>>

onClickAlwaysExpand(i) ==
    /\ IF isDragging
       THEN UNCHANGED expandedCard /\ cardClicked' = <<>>
       ELSE expandedCard' = CardAt(i) /\ cardClicked' = notify(i)
    /\ UNCHANGED <<layout, activeIndex, isDragging>>

\* the array indices as keys
IndexKeys == <<"0", "1", "2", "3", "4", "5">>

onClickStoresIndex(i) ==
    /\ IF isDragging
       THEN UNCHANGED expandedCard /\ cardClicked' = <<>>
       ELSE /\ expandedCard' = IF expandedCard = CardAt(i) THEN Null ELSE IndexKeys[i + 1]
            /\ cardClicked' = notify(i)
    /\ UNCHANGED <<layout, activeIndex, isDragging>>

onClickNotifiesFirst(i) ==
    /\ cardClicked' = notify(i)
    /\ IF isDragging
       THEN UNCHANGED expandedCard
       ELSE expandedCard' = IF expandedCard = CardAt(i) THEN Null ELSE CardAt(i)
    /\ UNCHANGED <<layout, activeIndex, isDragging>>

\* onClick of the card at index i:
\*   if (isDragging) return; setExpandedCard(isExpanded ? null : card.id); onCardClick?.(card)
onClick(i) ==
    /\ IF isDragging
       THEN UNCHANGED expandedCard /\ cardClicked' = <<>>
       ELSE /\ expandedCard' = IF expandedCard = CardAt(i) THEN Null ELSE CardAt(i)
            /\ cardClicked' = notify(i)
    /\ UNCHANGED <<layout, activeIndex, isDragging>>

setLayoutResetsIndex(mode) ==
    /\ layout' = mode
    /\ activeIndex' = 0
    /\ UNCHANGED <<expandedCard, isDragging>>
    /\ cardClicked' = <<>>

\* layout button: onClick={() => setLayout(mode)}
setLayout(mode) ==
    /\ layout' = mode
    /\ UNCHANGED <<expandedCard, activeIndex, isDragging>>
    /\ cardClicked' = <<>>

onDotClickOffByOne(index) ==
    /\ activeIndex' = advance(index)
    /\ UNCHANGED <<layout, expandedCard, isDragging>>
    /\ cardClicked' = <<>>

\* indicator dot: onClick={() => setActiveIndex(index)}
onDotClick(index) ==
    /\ activeIndex' = index
    /\ UNCHANGED <<layout, expandedCard, isDragging>>
    /\ cardClicked' = <<>>

----------------------------------------------------------------------------
(* Events delivered by the host *)

Ev(op, x, vx, index, mode) ==
    [op |-> op, x |-> x, vx |-> vx, index |-> index, mode |-> mode]

Init ==
    /\ \E n \in 0..MaxCards : cards = SubSeq(CardIds, 1, n)
    /\ layout \in LayoutModes
    /\ expandedCard = Null
    /\ activeIndex = 0
    /\ isDragging = FALSE
    /\ gesture = "idle"
    /\ dragCard = -1
    /\ event = Ev("mount", 0, 0, -1, "")
    /\ cardClicked = <<>>
    /\ onCardClick \in BOOLEAN

\* a pointer drag starts on a draggable card: onDragStart={() => setIsDragging(true)}
DragStart ==
    /\ rendered
    /\ gesture = "idle"
    /\ \E i \in 0..(Length - 1) :
          /\ draggable(i)
          /\ dragCard' = i
          /\ event' = Ev("dragStart", 0, 0, i, "")
    /\ isDragging' = TRUE
    /\ gesture' = "dragging"
    /\ cardClicked' = <<>>
    /\ UNCHANGED <<cards, onCardClick, layout, expandedCard, activeIndex>>

\* the pointer is released: onDragEnd={handleDragEnd}.  The release may also
\* produce a click on the dragged card after the handler has run (click).
DragEnd ==
    /\ rendered
    /\ gesture = "dragging"
    /\ \E x \in Offsets, vx \in Velocities :
          /\ handleDragEnd(x, vx)
          /\ event' = Ev("dragEnd", x, vx, dragCard, "")
    /\ \E click \in BOOLEAN :
          /\ gesture' = IF click THEN "released" ELSE "idle"
          /\ dragCard' = IF click THEN dragCard ELSE -1
    /\ UNCHANGED <<cards, onCardClick>>

\* the click event of the pointer release that ended the drag
ReleaseClick ==
    /\ rendered
    /\ gesture = "released"
    /\ onClick(dragCard)
    /\ event' = Ev("releaseClick", 0, 0, dragCard, "")
    /\ gesture' = "idle"
    /\ dragCard' = -1
    /\ UNCHANGED <<cards, onCardClick>>

\* any other click on a rendered card (also while a drag is in progress)
Click ==
    /\ rendered
    /\ gesture # "released"
    /\ \E i \in 0..(Length - 1) :
          /\ onClick(i)
          /\ event' = Ev("click", 0, 0, i, "")
    /\ UNCHANGED <<cards, onCardClick, gesture, dragCard>>

\* one of the three layout buttons is pressed
SetLayout ==
    /\ rendered
    /\ gesture # "released"
    /\ \E mode \in LayoutModes :
          /\ setLayout(mode)
          /\ event' = Ev("setLayout", 0, 0, -1, mode)
    /\ UNCHANGED <<cards, onCardClick, gesture, dragCard>>

\* the indicator dot of one index is pressed; the dots are rendered iff
\* layout === "stack" && cards.length > 1
DotClickAt(index) ==
    /\ rendered
    /\ gesture # "released"
    /\ index \in indicatorDots
    /\ onDotClick(index)
    /\ event' = Ev("dot", 0, 0, index, "")
    /\ UNCHANGED <<cards, onCardClick, gesture, dragCard>>

DotClick == \E index \in 0..(Length - 1) : DotClickAt(index)

Next ==
    \/ DragStart
    \/ DragEnd
    \/ ReleaseClick
    \/ Click
    \/ SetLayout
    \/ DotClick

Spec == Init /\ [][Next]_vars

----------------------------------------------------------------------------
(* Properties *)

\* a step that runs handleDragEnd, and one that runs a card's onClick
isDragEndStep == gesture = "dragging" /\ event'.op = "dragEnd"
isClickStep == event'.op \in {"click", "releaseClick"}

\* C1: for a non-empty card sequence activeIndex is always in [0, n); it is 0
\* at mount and stays in range after drag-ends, dot clicks, card clicks and
\* layout switches.
ActiveIndexInRange ==
    /\ Length > 0 => activeIndex \in 0..(Length - 1)
    /\ event.op = "mount" => activeIndex = 0

\* a retreat from index 0 has wrapped to the last index
ActiveIndexWrappedBack ==
    /\ event.op = "dragEnd"
    /\ swipedRight(event.x, event.vx) /\ ~swipedLeft(event.x, event.vx)
    /\ Length >= 2
    /\ activeIndex = Length - 1

\* C2: in stack mode with n cards and activeIndex = k the emitted order is
\* [(k+n-1) mod n, (k+n-2) mod n, ..., k]; the card at index k is emitted last
\* and has stack position 0.
StackDisplayOrder ==
    (rendered /\ layout = "stack") =>
        LET shown == displayCards
        IN  /\ Len(shown) = Length
            /\ \A j \in 1..Length :
                  shown[j].id = CardAt((activeIndex + Length - j) % Length)
            /\ shown[Length].id = CardAt(activeIndex)
            /\ shown[Length].stackPosition = 0

\* a three-card stack rotated to the middle card
StackRotated ==
    /\ layout = "stack"
    /\ Length = 3
    /\ activeIndex = 1
    /\ event.op = "dragEnd"

\* C3: a drag-end with velocity 0 advances iff offset < -50, retreats iff
\* offset > 50, and leaves activeIndex unchanged for -50 <= offset <= 50.
DragEndZeroVelocity ==
    [][(isDragEndStep /\ event'.vx = 0) =>
          activeIndex' = IF event'.x < -50
                         THEN (activeIndex + 1) % Length
                         ELSE IF event'.x > 50
                         THEN (activeIndex - 1 + Length) % Length
                         ELSE activeIndex]_vars

\* a release exactly on the threshold, at rest
DragEndOnThreshold ==
    /\ event.op = "dragEnd"
    /\ event.vx = 0
    /\ event.x = -50
    /\ Length = 3

\* C4 as stated: offset -5 with velocity 300 gives swipe = -1500 and advances.
FlickAdvancesAsStated ==
    [][(isDragEndStep /\ event'.x = -5 /\ event'.vx = 300) =>
          /\ swipe(event'.x, event'.vx) = -1500
          /\ activeIndex' = (activeIndex + 1) % Length]_vars

\* C4 (amended): offset -5 with velocity -300 gives swipe = -1500 and advances
\* although the distance is below the threshold; with velocity 300 the swipe
\* is +1500 and activeIndex retreats.
FlickBelowThreshold ==
    [][/\ (isDragEndStep /\ event'.x = -5 /\ event'.vx = -300) =>
            /\ swipe(event'.x, event'.vx) = -1500
            /\ activeIndex' = (activeIndex + 1) % Length
       /\ (isDragEndStep /\ event'.x = -5 /\ event'.vx = 300) =>
            /\ swipe(event'.x, event'.vx) = 1500
            /\ activeIndex' = (activeIndex - 1 + Length) % Length]_vars

\* a short fast leftward flick has been released on a three-card stack
FlickReleased ==
    /\ event.op = "dragEnd"
    /\ event.x = -5
    /\ event.vx = -300
    /\ Length = 3

\* C5: the click produced by the pointer release that ended a drag (after the
\* drag-end handler) never toggles expansion.
ReleaseClickSuppressed ==
    [][event'.op = "releaseClick" => expandedCard' = expandedCard]_vars

\* C6: isDragging is false in the state right after every drag-end handler
\* run, whichever branch was taken.
DragEndClearsDragging ==
    event.op = "dragEnd" => isDragging = FALSE

\* a drag-end that navigated
DragEndNavigated ==
    /\ event.op = "dragEnd"
    /\ swipedLeft(event.x, event.vx)
    /\ Length >= 2

\* C7: a click delivered while isDragging is true changes none of
\* expandedCard, activeIndex, layout, isDragging.
ClickWhileDraggingIgnored ==
    [][(isClickStep /\ isDragging) =>
          UNCHANGED <<expandedCard, activeIndex, layout, isDragging>>]_vars

\* a click has been delivered during a drag
ClickedWhileDragging ==
    /\ event.op = "click"
    /\ isDragging
    /\ gesture = "dragging"

\* at most one card is expanded
AtMostOneExpanded ==
    Cardinality({j \in 1..Length : cards[j] = expandedCard}) <= 1

\* C8: a click on card c while isDragging is false sets expandedCard to none
\* if c was expanded and to c's id otherwise; at no time are two cards
\* expanded.
ClickToggles ==
    /\ []AtMostOneExpanded
    /\ [][(isClickStep /\ ~isDragging) =>
             expandedCard' = IF expandedCard = CardAt(event'.index)
                             THEN Null ELSE CardAt(event'.index)]_vars

\* an unsuppressed click has collapsed the expanded card
ClickCollapsed ==
    /\ event.op = "click"
    /\ ~isDragging
    /\ onCardClick
    /\ cardClicked = <<CardAt(event.index)>>
    /\ expandedCard = Null

\* C9: selecting a layout mode sets layout to the chosen mode and leaves
\* activeIndex and expandedCard unchanged.
LayoutSwitchFrame ==
    [][event'.op = "setLayout" =>
          /\ layout' = event'.mode
          /\ UNCHANGED <<activeIndex, expandedCard>>]_vars

\* a layout switch with a rotated stack and an expanded card
LayoutSwitched ==
    /\ event.op = "setLayout"
    /\ layout = "grid"
    /\ activeIndex # 0
    /\ expandedCard # Null

\* C10 as stated: isDragging is false whenever no drag is in progress or the
\* layout is grid or list.
DraggingOnlyInStack ==
    (gesture # "dragging" \/ layout \in {"grid", "list"}) => isDragging = FALSE

\* C10 (amended): isDragging is true only while a drag gesture is in progress,
\* and a gesture only starts on the frontmost card in stack mode.
DraggingOnlyDuringDrag ==
    /\ [](isDragging => gesture = "dragging")
    /\ [][(~isDragging /\ isDragging') =>
             (layout = "stack" /\ dragCard' = activeIndex)]_vars

\* the layout was switched away from the stack during a drag
DraggingInGrid ==
    /\ isDragging
    /\ gesture = "dragging"
    /\ layout = "grid"

\* the indices of the cards that accept a drag in the current render
draggableCards == {i \in 0..(Length - 1) : draggable(i)}

\* C11 as stated: in stack mode exactly the card at activeIndex (stack
\* position 0) is draggable, in grid and list none is, and drag-start and
\* drag-end only occur on the card at activeIndex in stack mode.
DragOnlyOnActiveCard ==
    /\ [](rendered => draggableCards = IF layout = "stack" THEN {activeIndex} ELSE {})
    /\ [][event'.op = "dragStart" =>
             (layout = "stack" /\ event'.index = activeIndex)]_vars
    /\ [][isDragEndStep =>
             (layout = "stack" /\ event'.index = activeIndex)]_vars

\* C11 (amended): the draggable card is exactly the card at activeIndex in
\* stack mode and none in grid and list; drag-start only occurs on it; a
\* drag-end occurs on the card its drag started on, whatever the layout and
\* activeIndex are by then.
DragEligibility ==
    /\ [](rendered => draggableCards = IF layout = "stack" THEN {activeIndex} ELSE {})
    /\ [][event'.op = "dragStart" =>
             (layout = "stack" /\ event'.index = activeIndex
              /\ dragCard' = activeIndex)]_vars
    /\ [][isDragEndStep => event'.index = dragCard]_vars
    /\ [](gesture = "dragging" => dragCard \in 0..(Length - 1))

\* a drag-end delivered after the layout left the stack
DragEndedInGrid ==
    /\ event.op = "dragEnd"
    /\ layout = "grid"
    /\ Length = 3
    /\ event.index # activeIndex

\* C12: with an empty card sequence nothing is rendered, no event can occur
\* and the state keeps its initial values.
EmptyRendersNothing ==
    Length = 0 =>
        /\ ~rendered
        /\ renderOutput = <<>>
        /\ indicatorDots = {}
        /\ ~ENABLED Next
        /\ event.op = "mount"
        /\ expandedCard = Null /\ activeIndex = 0 /\ isDragging = FALSE
        /\ cardClicked = <<>>

\* the component mounted with no cards
MountedEmpty ==
    /\ Length = 0
    /\ ~rendered
    /\ layout = "grid"

\* C13: expandedCard is none or the id of a card of the sequence.
ExpandedCardPresent ==
    expandedCard = Null \/ \E j \in 1..Length : cards[j] = expandedCard

\* the last card of a three-card sequence is expanded
LastCardExpanded ==
    /\ Length = 3
    /\ expandedCard = cards[3]
    /\ event.op = "click"

\* C14: onCardClick, when supplied, is called exactly once with the clicked
\* card for every click that arrives while isDragging is false, and never for
\* a click that arrives while isDragging is true.
CallbackOncePerClick ==
    [][isClickStep =>
          cardClicked' = IF ~isDragging /\ onCardClick
                         THEN <<CardAt(event'.index)>> ELSE <<>>]_vars

\* a click that collapsed a card has called onCardClick
CallbackOnCollapse ==
    /\ onCardClick
    /\ event.op = "click"
    /\ expandedCard = Null
    /\ cardClicked = <<CardAt(event.index)>>
    /\ Length >= 2

\* the two conditions of the drag-end rule, for the release of the step
leftCondition == event'.x < -50 \/ Abs(event'.x) * event'.vx < -1000
rightCondition == event'.x > 50 \/ Abs(event'.x) * event'.vx > 1000

\* C15: the leftward condition is checked first: when it holds activeIndex
\* advances even if the rightward one holds too; activeIndex retreats only
\* when the rightward condition holds and the leftward does not; a drag-end
\* moves activeIndex by at most one step.
LeftCheckedFirst ==
    [][isDragEndStep =>
          /\ leftCondition => activeIndex' = (activeIndex + 1) % Length
          /\ (rightCondition /\ ~leftCondition) =>
                activeIndex' = (activeIndex - 1 + Length) % Length
          /\ (~leftCondition /\ ~rightCondition) => activeIndex' = activeIndex
          /\ activeIndex' \in {activeIndex, (activeIndex + 1) % Length,
                               (activeIndex - 1 + Length) % Length}]_vars

\* a long rightward drag released with leftward velocity: both conditions hold
BothConditionsHeld ==
    /\ event.op = "dragEnd"
    /\ event.x = 60
    /\ event.vx = -20
    /\ Length = 3
    /\ activeIndex = 1

\* C16: for -50 <= offset <= 50 the product |offset| * velocity alone decides:
\* below -1000 advance, above 1000 retreat, otherwise (bounds included)
\* unchanged; offset 0 never navigates.
VelocityAloneNavigates ==
    [][(isDragEndStep /\ event'.x >= -50 /\ event'.x <= 50) =>
          /\ activeIndex' =
                IF Abs(event'.x) * event'.vx < -1000
                THEN (activeIndex + 1) % Length
                ELSE IF Abs(event'.x) * event'.vx > 1000
                THEN (activeIndex - 1 + Length) % Length
                ELSE activeIndex
          /\ event'.x = 0 => activeIndex' = activeIndex]_vars

\* a short drag released with the product exactly on the bound
ProductOnBound ==
    /\ event.op = "dragEnd"
    /\ event.x = 10
    /\ event.vx = 100
    /\ Length = 3
    /\ activeIndex = 2

\* C17: the style of a card depends on the layout and its stack position p:
\* in stack mode top = left = 8p, zIndex = n - p, rotate = 2(p - 1); in grid
\* and list top = left = 0, zIndex = 1, rotate = 0.
StyleByPosition ==
    rendered =>
        LET out == renderOutput
        IN  \A j \in 1..Len(out) :
            LET p == out[j].stackPosition
                st == out[j].styles
            IN  IF layout = "stack"
                THEN /\ st.top = 8 * p /\ st.left = 8 * p
                     /\ st.zIndex = Length - p
                     /\ st.rotate = 2 * (p - 1)
                     /\ p = 0 => (st.zIndex = Length /\ st.rotate = -2)
                     /\ p = 1 => st.rotate = 0
                ELSE st = [top |-> 0, left |-> 0, zIndex |-> 1, rotate |-> 0]

\* a three-card stack after a dot click to the last card
StackStyled ==
    /\ layout = "stack"
    /\ Length = 3
    /\ activeIndex = 2
    /\ event.op = "dot"

\* C18: in grid and list the render output is the original sequence with
\* position = index, flat styles and no draggable card: a function of cards,
\* layout and expandedCard in which activeIndex does not occur.
FlatOutputIgnoresIndex ==
    (rendered /\ layout \in {"grid", "list"}) =>
        renderOutput =
            [j \in 1..Length |->
                [id |-> cards[j],
                 stackPosition |-> j - 1,
                 styles |-> [top |-> 0, left |-> 0, zIndex |-> 1, rotate |-> 0],
                 isExpanded |-> expandedCard = cards[j],
                 drag |-> FALSE]]

\* a list layout while activeIndex points at the last card
ListWithRotatedIndex ==
    /\ layout = "list"
    /\ Length = 3
    /\ activeIndex = 2

RECURSIVE advanceTimes(_, _)
advanceTimes(k, m) == IF m = 0 THEN k ELSE advance(advanceTimes(k, m - 1))

\* C19: advance and retreat are inverse circular steps: from every index k
\* one followed by the other returns to k, n advances return to k after
\* visiting every index once, and a navigating drag-end is undone by the
\* opposite step.
NavigationInverse ==
    /\ [](rendered =>
            \A k \in 0..(Length - 1) :
                /\ retreat(advance(k)) = k
                /\ advance(retreat(k)) = k
                /\ advanceTimes(k, Length) = k
                /\ {advanceTimes(k, m) : m \in 0..(Length - 1)} = 0..(Length - 1)
                /\ Length = 1 => (advance(k) = 0 /\ retreat(k) = 0))
    /\ [][(isDragEndStep /\ leftCondition) =>
             (activeIndex' - 1 + Length) % Length = activeIndex]_vars
    /\ [][(isDragEndStep /\ rightCondition /\ ~leftCondition) =>
             (activeIndex' + 1) % Length = activeIndex]_vars

\* an advance from the last card has wrapped to the first
AdvanceWrappedForward ==
    /\ event.op = "dragEnd"
    /\ swipedLeft(event.x, event.vx)
    /\ Length = 3
    /\ activeIndex = 0
    /\ layout = "stack"

\* C20: in stack mode the emitted list holds every card once, the stack
\* positions are a permutation of 0..n-1, the z-indices are distinct values in
\* 1..n that strictly increase along the emitted order, and the last emitted
\* card, the card at activeIndex, alone has z-index n.
StackPermutation ==
    (rendered /\ layout = "stack") =>
        LET out == renderOutput
        IN  /\ Len(out) = Length
            /\ \A i \in 1..Length :
                  Cardinality({j \in 1..Length : out[j].id = cards[i]}) = 1
            /\ \A p \in 0..(Length - 1) :
                  Cardinality({j \in 1..Length : out[j].stackPosition = p}) = 1
            /\ \A j \in 1..Length : out[j].styles.zIndex \in 1..Length
            /\ \A j \in 1..(Length - 1) :
                  out[j].styles.zIndex < out[j + 1].styles.zIndex
            /\ out[Length].id = CardAt(activeIndex)
            /\ {j \in 1..Length : out[j].styles.zIndex = Length} = {Length}

\* a three-card stack with the middle card in front after a dot click
MiddleCardInFront ==
    /\ layout = "stack"
    /\ Length = 3
    /\ activeIndex = 1
    /\ event.op = "dot"

\* C21: every drag-end and every indicator-dot click leaves expandedCard and
\* layout unchanged; layout changes only through the layout buttons.
NavigationFrame ==
    /\ [][(isDragEndStep \/ event'.op = "dot") =>
             UNCHANGED <<expandedCard, layout>>]_vars
    /\ [][layout' # layout => event'.op = "setLayout"]_vars

\* the stack was rotated by a drag while a card stayed expanded
RotatedWhileExpanded ==
    /\ event.op = "dragEnd"
    /\ swipedRight(event.x, event.vx) /\ ~swipedLeft(event.x, event.vx)
    /\ expandedCard # Null
    /\ Length = 3
    /\ layout = "stack"

\* C22: indicator dots exist only in stack mode with more than one card, one
\* per index; a click on dot i sets activeIndex to i, which makes card i the
\* frontmost, draggable card, and leaves isDragging unchanged; in stack mode
\* every dot can be clicked whenever no release click is pending.
DotSelectsIndex ==
    /\ [](indicatorDots # {} =>
            (layout = "stack" /\ Length > 1 /\ indicatorDots = 0..(Length - 1)))
    /\ []((rendered /\ layout = "stack" /\ Length > 1) =>
            /\ indicatorDots = 0..(Length - 1)
            /\ gesture # "released" =>
                  \A i \in 0..(Length - 1) : ENABLED DotClickAt(i))
    /\ [][event'.op = "dot" =>
             /\ layout = "stack" /\ Length > 1
             /\ event'.index \in 0..(Length - 1)
             /\ activeIndex' = event'.index
             /\ isDragging' = isDragging]_vars
    /\ [](event.op = "dot" =>
            LET out == renderOutput
            IN  /\ out[Length].id = CardAt(event.index)
                /\ out[Length].stackPosition = 0
                /\ out[Length].drag
                /\ draggableCards = {event.index})

\* a dot click during a drag has brought the last card to the front
DotClickedWhileDragging ==
    /\ event.op = "dot"
    /\ event.index = 2
    /\ activeIndex = 2
    /\ isDragging
    /\ Length = 3

====
